---- MODULE Spec2Model ----
(***************************************************************************)
(* Pipeline execution engine of Query_Based_DB_Bot.                        *)
(*                                                                         *)
(*   Spec     the gated Flask service (src/fapp.py): task registry,        *)
(*            background workers, approval events, request handlers.      *)
(*   SpecApp  the Streamlit stage machine (src/app.py, processing_step).   *)
(*   SpecRun  the script sandbox (src/modules/script_Runner.py,            *)
(*            run_python_code) with its child process.                     *)
(*   SpecWait the artifact wait of the sandbox                             *)
(*            (_wait_for_new_files_stable) while files still change.       *)
(*   SpecLog  the service with GET /status reads of the task log.          *)
(*   SpecReg  the registry helpers (add_log, set_task_status, ...) called  *)
(*            with known and unknown task ids.                             *)
(*   SpecWaitFair  SpecWait with the caller running and time advancing.    *)
(*   SpecStart     POST /start_generation, accepted and rejected.          *)
(*   SpecTopo      topological_sort of modules/reorder_create_sql.py.      *)
(*   SpecRetry     execute_with_retry of modules/db_utils.py.              *)
(***************************************************************************)
EXTENDS Integers, Sequences, FiniteSets, TLC

\* ------------------------------------------------------------------ bounds
MaxTasks == 1
MaxReviews == 1
MaxApprovals == 2
LogWindow == 2
MaxSysLogs == 1
MaxRegCalls == 4

\* Task ids are fresh uuids; the id MaxTasks + 1 is never registered and
\* stands for an id no Start request ever returned.
Ids == 1 .. (MaxTasks + 1)

VARIABLES
    tasks,            \* fapp.tasks: id -> [status, logs, awaiting]
    approval_events,  \* fapp.approval_events: id -> event (NoEvt when absent)
    evtSet,           \* the threading.Event objects whose flag is set
    workers,          \* background threads, in spawn order
    approvals,        \* /approve_action requests, in arrival order
    nreviews,         \* number of /submit_review requests served
    status_resp,      \* the last response of GET /status (<<>> before)
    reg_call          \* the last direct call of a registry helper (<<>> before)

fvars == <<tasks, approval_events, evtSet, workers, approvals, nreviews, status_resp,
           reg_call>>

VARIABLES
    rpc,         \* run_python_code: position of the call
    path,        \* "main" (run_space_dir is a directory) or "fallback" (temp dir)
    child,       \* the child process: none, running, exited, killed
    returncode,  \* Popen.returncode once the child has ended (<<>> before)
    desc,        \* a process the script started: none, running, detached, gone
    clock,       \* time spent in communicate(timeout=timeout)
    out,         \* chunks of standard output read from the pipe so far
    made,        \* files the script has written in the directory
    ret,         \* the dict returned by run_python_code (<<>> before)
    fs,          \* the run directory: name -> [kind, size, mtime]
    before_files,\* names in the directory before the script was written
    waiter       \* locals of _wait_for_new_files_stable

rvars == <<rpc, path, child, returncode, desc, clock, out, made, ret,
           fs, before_files, waiter>>

VARIABLES
    processing_step,      \* app.py: st.session_state.processing_step
    model_generated,      \* app.py: st.session_state.model_generated
    schema_chat_history   \* app.py: st.session_state.schema_chat_history

avars == <<processing_step, model_generated, schema_chat_history>>

VARIABLES
    current_task,   \* fapp.current_task.task_id as a request-handling thread left it
    start_resp      \* the last response of POST /start_generation (<<>> before)

tvars == <<current_task, start_resp>>

VARIABLES
    topo,    \* reorder_create_sql.topological_sort: the graph passed and the result
    retry    \* db_utils.execute_with_retry: position and counts of one call

uvars == <<topo, retry>>

\* --------------------------------------------------------------- registry
NoEvt == <<0, "none">>

Actions == {"create", "insert", "other"}

\* A task's logs list, kept as its length and its last LogWindow entries
\* (the entries a step appends are all that a step can change).
NoLogs == [n |-> 0, tail |-> <<>>]

LastOf(seq, k) ==
    IF Len(seq) <= k THEN seq ELSE SubSeq(seq, Len(seq) - k + 1, Len(seq))

list_append_Reset(logs, entry) == [n |-> 1, tail |-> <<entry>>]

list_append(logs, entry) ==
    [n |-> logs.n + 1, tail |-> LastOf(Append(logs.tail, entry), LogWindow)]

add_log_Creates(T, t, role, text) ==
    IF t \in DOMAIN T
    THEN [T EXCEPT ![t].logs = list_append(@, [role |-> role, text |-> text])]
    ELSE (t :> [status |-> "", logs |-> list_append(NoLogs, [role |-> role, text |-> text]),
                system_logs |-> 0, awaiting |-> "none"]) @@ T

\* add_log: append {role, text, time} when the task exists, else nothing.
add_log(T, t, role, text) ==
    IF t \in DOMAIN T
    THEN [T EXCEPT ![t].logs = list_append(@, [role |-> role, text |-> text])]
    ELSE T

\* set_task_status: overwrite status when the task exists, else nothing.
set_task_status(T, t, s) ==
    IF t \in DOMAIN T THEN [T EXCEPT ![t].status = s] ELSE T

\* _attach_system_log: append {time, text} to the task's system_logs when
\* the task exists, else nothing. The list is kept as its length, counted up
\* to MaxSysLogs.
attach_system_log(T, t) ==
    IF t \in DOMAIN T
    THEN [T EXCEPT ![t].system_logs = IF @ < MaxSysLogs THEN @ + 1 ELSE @]
    ELSE T

\* current_task.task_id of a thread that never set it.
NoTask == 0

\* _custom_print: the line goes to the system log of the thread's current
\* task; worker threads and the thread of POST /start_generation set it.
custom_print(T, task_id) ==
    IF task_id # NoTask /\ task_id \in DOMAIN T THEN attach_system_log(T, task_id) ELSE T

ErrorStatus == "Error: <e>"
ErrorSchema == "Error: Schema generation failed: <e>"
ErrorPhase1 == "Error: Phase 1 test generation failed"
ErrorStatuses == {ErrorStatus, ErrorSchema, ErrorPhase1}

\* ------------------------------------------------ sandbox return codes
\* run_python_code's synthetic codes, and what Popen.returncode can be:
\* the child's own exit status, or -N when signal N ended it (POSIX).
TimeoutCode == 0 - 1
WriteFailCode == 0 - 2
LaunchFailCode == 0 - 3
SyntheticCodes == {TimeoutCode, WriteFailCode, LaunchFailCode}

MaxExit == 1
MaxSignal == 2
ExitCodes == 0 .. MaxExit
Signals == 1 .. MaxSignal
PopenReturnCodes == ExitCodes \cup {0 - s : s \in Signals}
SandboxCodes == SyntheticCodes \cup PopenReturnCodes

\* ---------------------------------------------------------------- workers
NoResult == <<>>

NewWorker(t, kind) ==
    [task |-> t, kind |-> kind, pc |-> "start", raised |-> "none",
     result |-> NoResult, phase1_ok |-> NoResult, current_task |-> NoTask]

Active(w) == workers[w].pc # "done"

EvtWait_NoBlock(e) == TRUE

\* threading.Event.wait(): the caller stays blocked until the flag is set.
EvtWait(e) == e \in evtSet

\* The event a worker creates for a gate (a fresh object per worker and gate).
EvtOf(w, gate) == <<w, gate>>

Fail_StatusKept(w, handler) ==
    /\ tasks' = custom_print(add_log(tasks, workers[w].task, "assistant", "fail: Error: <e>"), workers[w].task)
    /\ workers' = [workers EXCEPT ![w].pc = "done", ![w].current_task = NoTask, ![w].raised = handler,
                                  ![w].phase1_ok = NoResult]
    /\ UNCHANGED <<approval_events, evtSet, approvals, nreviews, status_resp, reg_call, rvars, avars, tvars, uvars>>

\* The except block of the three worker functions: status, log, thread ends.
\* The frame of run_testing_and_review, and its local phase1_ok, is gone.
\* run_processing_pipeline 283-293, run_correction_loop 238-248,
\* continue_pipeline 457-466.
Fail(w, handler) ==
    LET t == workers[w].task
        text == CASE workers[w].kind = "pipeline" -> "fail: Error during generation: <e>"
                  [] workers[w].kind = "correction" -> "fail: Error during correction loop: <e>"
                  [] OTHER -> "fail: Error: <e>"
    IN  /\ tasks' = custom_print(add_log(set_task_status(tasks, t, ErrorStatus), t, "assistant", text), workers[w].task)
        /\ workers' = [workers EXCEPT ![w].pc = "done", ![w].current_task = NoTask, ![w].raised = handler,
                                  ![w].phase1_ok = NoResult]
        /\ UNCHANGED <<approval_events, evtSet, approvals, nreviews, status_resp, reg_call, rvars, avars, tvars, uvars>>

\* A worker step that only touches the registry and its own position; the
\* thread is bound to its task from the first line of the worker function
\* (213, 254, 370) until the function's finally block.
Step(w, T, pc) ==
    /\ tasks' = custom_print(T, workers[w].task)
    /\ workers' = [workers EXCEPT ![w].pc = pc, ![w].current_task = workers[w].task]
    /\ UNCHANGED <<approval_events, evtSet, approvals, nreviews, status_resp, reg_call, rvars, avars, tvars, uvars>>

\* Thread entry: the first status (and log) of each worker function.
WorkerBegin(w) ==
    /\ workers[w].pc = "start"
    /\ LET t == workers[w].task IN
       CASE workers[w].kind = "pipeline" ->
              Step(w, set_task_status(tasks, t, "Extracting metadata..."),
                   "generate_metadata")
         [] workers[w].kind = "correction" ->
              Step(w, add_log(set_task_status(tasks, t, "Applying user feedback..."),
                              t, "user", "User Feedback"),
                   "user_correction")
         [] OTHER ->
              Step(w, set_task_status(tasks, t, "Generating CREATE script..."),
                   "generate_create_script")

\* Entry of run_testing_and_review: the status before the first diagram.
EnterTesting(T, t) == set_task_status(T, t, "Generating visual schema diagram...")

GenerateMetadata(w) ==
    /\ workers[w].pc = "generate_metadata"
    /\ LET t == workers[w].task IN
       \/ Step(w, set_task_status(add_log(tasks, t, "assistant", "ok: Metadata extracted"),
                                  t, "Generating dimensional model..."),
               "generate_dimensional_model")
       \/ Fail(w, "generate_metadata")

GenerateDimensionalModel(w) ==
    /\ workers[w].pc = "generate_dimensional_model"
    /\ LET t == workers[w].task IN
       \/ Step(w, EnterTesting(add_log(tasks, t, "assistant", "ok: Dimensional model generated"), t),
               "generate_schema")
       \/ Fail(w, "generate_dimensional_model")

\* run_correction_loop: write the feedback, correction(), then
\* run_testing_and_review(task_id, context=tasks[task_id]['context']).
UserCorrection(w) ==
    /\ workers[w].pc = "user_correction"
    /\ LET t == workers[w].task IN
       \/ /\ t \in DOMAIN tasks
          /\ Step(w, EnterTesting(add_log(tasks, t, "assistant", "ok: Corrections applied"), t),
                  "generate_schema")
       \/ /\ t \notin DOMAIN tasks      \* KeyError on tasks[task_id]
          /\ Fail(w, "tasks[task_id]")
       \/ Fail(w, "user_correction")

\* run_testing_and_review, first diagram: its failure is handled locally.
GenerateSchema(w) ==
    /\ workers[w].pc = "generate_schema"
    /\ LET t == workers[w].task IN
       \/ Step(w, set_task_status(
                     add_log(add_log(tasks, t, "assistant", "ok: Schema image generated"),
                             t, "assistant", "ok: Schema diagram generated"),
                     t, "Running Phase 1 tests..."),
               "run_phase1")
       \/ /\ tasks' = custom_print(set_task_status(
                         add_log(tasks, t, "assistant", "fail: Schema generation failed: <e>"),
                         t, ErrorSchema), workers[w].task)
          /\ workers' = [workers EXCEPT ![w].pc = "done", ![w].current_task = NoTask, ![w].raised = "generate_schema"]
          /\ UNCHANGED <<approval_events, evtSet, approvals, nreviews, status_resp, reg_call, rvars, avars, tvars, uvars>>

\* What run_phase1 returns: the pair (True, reasoning) or (False, None).
Phase1Returns == {<<TRUE, "reasoning">>, <<FALSE, "None">>}

\* Python truth value of a tuple, as tested by `if not phase1_ok`.
Truthy(tuple) == Len(tuple) > 0

RunPhase1(w) ==
    /\ workers[w].pc = "run_phase1"
    /\ LET t == workers[w].task IN
       \/ \E phase1_ok \in Phase1Returns :
            IF ~ Truthy(phase1_ok)
            THEN /\ tasks' = custom_print(add_log(set_task_status(tasks, t, ErrorPhase1),
                                     t, "assistant", "fail: Phase 1 failed"), workers[w].task)
                 /\ workers' = [workers EXCEPT ![w].pc = "done", ![w].current_task = NoTask, ![w].phase1_ok = <<phase1_ok>>]
                 /\ UNCHANGED <<approval_events, evtSet, approvals, nreviews, status_resp, reg_call, rvars, avars, tvars, uvars>>
            ELSE /\ tasks' = custom_print(
                               set_task_status(add_log(tasks, t, "assistant", "ok: Phase 1 complete"),
                                               t, "Running Phase 2 validation..."),
                               workers[w].task)
                 /\ workers' = [workers EXCEPT ![w].pc = "run_phase2", ![w].phase1_ok = <<phase1_ok>>]
                 /\ UNCHANGED <<approval_events, evtSet, approvals, nreviews, status_resp, reg_call, rvars, avars, tvars, uvars>>
       \/ Fail(w, "run_phase1")

RunPhase2(w) ==
    /\ workers[w].pc = "run_phase2"
    /\ LET t == workers[w].task IN
       \/ Step(w, set_task_status(add_log(tasks, t, "assistant", "ok: Phase 2 validation complete"),
                                  t, "Applying automated corrections..."),
               "correction")
       \/ Fail(w, "run_phase2")

Correction(w) ==
    /\ workers[w].pc = "correction"
    /\ LET t == workers[w].task IN
       \/ Step(w, add_log(tasks, t, "assistant", "ok: Automated corrections applied"),
               "regen_schema")
       \/ Fail(w, "correction")

AwaitReview_StatusKept(T, t) ==
    add_log(T, t, "assistant", "Please review the schema")

\* The tail of run_testing_and_review: park the task at user review.
AwaitReview(T, t) ==
    add_log(set_task_status(T, t, "Awaiting user review"), t, "assistant", "Please review the schema")

\* Second diagram (after the automated corrections): a failure is only logged.
\* run_testing_and_review returns: its local phase1_ok is gone.
RegenSchema(w) ==
    /\ workers[w].pc = "regen_schema"
    /\ LET t == workers[w].task IN
       \/ /\ tasks' = custom_print(AwaitReview(
                         add_log(add_log(tasks, t, "assistant", "ok: Schema image generated"),
                                 t, "assistant", "ok: Corrected schema image generated"), t), workers[w].task)
          /\ workers' = [workers EXCEPT ![w].pc = "done", ![w].current_task = NoTask, ![w].phase1_ok = NoResult]
          /\ UNCHANGED <<approval_events, evtSet, approvals, nreviews, status_resp, reg_call, rvars, avars, tvars, uvars>>
       \/ /\ tasks' = custom_print(AwaitReview(
                         add_log(tasks, t, "assistant", "fail: Failed to generate corrected schema image: <e>"), t), workers[w].task)
          /\ workers' = [workers EXCEPT ![w].pc = "done", ![w].current_task = NoTask, ![w].raised = "regen_schema",
                                        ![w].phase1_ok = NoResult]
          /\ UNCHANGED <<approval_events, evtSet, approvals, nreviews, status_resp, reg_call, rvars, avars, tvars, uvars>>

\* ------------------------------------------------- continuation worker
\* Record the checkpoint on the task, then the status (391-392, 430-431).
MarkAwaiting(T, t, gate, status) ==
    set_task_status([T EXCEPT ![t].awaiting = gate], t, status)

GenerateCreateScript(w) ==
    /\ workers[w].pc = "generate_create_script"
    /\ LET t == workers[w].task IN
       \/ /\ t \in DOMAIN tasks
          /\ Step(w, MarkAwaiting(
                        add_log(add_log(tasks, t, "assistant", "ok: CREATE script generated"),
                                t, "assistant", "CREATE script ready, awaiting approval"),
                        t, "create", "Awaiting approval: create_tables"),
                  "open_create")
       \/ /\ t \notin DOMAIN tasks      \* KeyError on tasks[task_id]
          /\ Fail(w, "tasks[task_id]")
       \/ Fail(w, "generate_create_script")

\* evt = threading.Event(); approval_events[task_id] = evt
OpenGate(w) ==
    /\ workers[w].pc \in {"open_create", "open_insert"}
    /\ LET gate == IF workers[w].pc = "open_create" THEN "create" ELSE "insert" IN
       /\ approval_events' = [approval_events EXCEPT ![workers[w].task] = EvtOf(w, gate)]
       /\ workers' = [workers EXCEPT ![w].pc = IF gate = "create" THEN "wait_create"
                                                ELSE "wait_insert"]
    /\ UNCHANGED <<tasks, evtSet, approvals, nreviews, status_resp, reg_call, rvars, avars, tvars, uvars>>

\* evt.wait() returns; the awaiting flag is popped and the status set.
WaitGate(w) ==
    /\ workers[w].pc \in {"wait_create", "wait_insert"}
    /\ LET t == workers[w].task
           gate == IF workers[w].pc = "wait_create" THEN "create" ELSE "insert"
       IN  /\ EvtWait(EvtOf(w, gate))
           /\ Step(w, set_task_status([tasks EXCEPT ![t].awaiting = "none"], t,
                                      IF gate = "create" THEN "Creating tables..."
                                      ELSE "Inserting data..."),
                   IF gate = "create" THEN "execute_create" ELSE "execute_insert")

\* Read the CREATE script and run it; the result is not inspected (412-413).
ExecuteCreate(w) ==
    /\ workers[w].pc = "execute_create"
    /\ LET t == workers[w].task IN
       \/ \E rc \in SandboxCodes :
            /\ tasks' = custom_print(set_task_status(add_log(tasks, t, "assistant", "ok: Tables created"),
                                        t, "Generating INSERT script..."), workers[w].task)
            /\ workers' = [workers EXCEPT ![w].pc = "generate_insert_script",
                                          ![w].result = <<rc>>]
            /\ UNCHANGED <<approval_events, evtSet, approvals, nreviews, status_resp, reg_call, rvars, avars, tvars, uvars>>
       \/ Fail(w, "open(create_Database_Script.py)")

GenerateInsertScript(w) ==
    /\ workers[w].pc = "generate_insert_script"
    /\ LET t == workers[w].task IN
       \/ Step(w, MarkAwaiting(
                     add_log(add_log(tasks, t, "assistant", "ok: INSERT script generated"),
                             t, "assistant", "INSERT script ready, awaiting approval"),
                     t, "insert", "Awaiting approval: insert_data"),
               "open_insert")
       \/ Fail(w, "generate_insert_script")

ExecuteInsert_CodeIgnored(w) ==
    /\ workers[w].pc = "execute_insert"
    /\ LET t == workers[w].task IN
       \/ \E rc \in SandboxCodes :
            /\ tasks' = custom_print(add_log(set_task_status(
                                        add_log(tasks, t, "assistant", "ok: Data inserted"),
                                        t, "Completed"),
                                     t, "assistant", "Pipeline completed successfully"), workers[w].task)
            /\ workers' = [workers EXCEPT ![w].pc = "done", ![w].current_task = NoTask, ![w].result = <<rc>>]
            /\ UNCHANGED <<approval_events, evtSet, approvals, nreviews, status_resp, reg_call, rvars, avars, tvars, uvars>>
       \/ Fail(w, "open(insert_Data_Script.py)")

\* Read the INSERT script and run it; a non-zero return code raises (447-455).
ExecuteInsert(w) ==
    /\ workers[w].pc = "execute_insert"
    /\ LET t == workers[w].task IN
       \/ \E rc \in SandboxCodes :
            IF rc # 0
            THEN /\ tasks' = custom_print(add_log(set_task_status(tasks, t, ErrorStatus),
                                     t, "assistant", "fail: Error: <e>"), workers[w].task)
                 /\ workers' = [workers EXCEPT ![w].pc = "done", ![w].current_task = NoTask, ![w].result = <<rc>>,
                                               ![w].raised = "run_python_code(insert)"]
                 /\ UNCHANGED <<approval_events, evtSet, approvals, nreviews, status_resp, reg_call, rvars, avars, tvars, uvars>>
            ELSE /\ tasks' = custom_print(add_log(set_task_status(
                                        add_log(tasks, t, "assistant", "ok: Data inserted"),
                                        t, "Completed"),
                                     t, "assistant", "Pipeline completed successfully"), workers[w].task)
                 /\ workers' = [workers EXCEPT ![w].pc = "done", ![w].current_task = NoTask, ![w].result = <<rc>>]
                 /\ UNCHANGED <<approval_events, evtSet, approvals, nreviews, status_resp, reg_call, rvars, avars, tvars, uvars>>
       \/ Fail(w, "open(insert_Data_Script.py)")

\* ------------------------------------------------------- request handlers
\* The registry entry of a new task (830-839).
NewTask == [status |-> "Starting...", logs |-> NoLogs, system_logs |-> 0, awaiting |-> "none"]

MaxStarts == 3

\* Requests to POST /start_generation so far.
StartCount == IF start_resp = <<>> THEN 0 ELSE start_resp[1].n

StartResponse(code, task_id) ==
    <<[n |-> StartCount + 1, code |-> code, task_id |-> task_id]>>

\* The uuid4 of a request that registers nothing: no registered task has it.
RejectedId == MaxTasks + 2

start_rejected_Registers(code) ==
    /\ StartCount < MaxStarts
    /\ current_task' = RejectedId
    /\ start_resp' = StartResponse(code, NoTask)
    /\ LET t == Cardinality(DOMAIN tasks) + 1 IN
       tasks' = [i \in DOMAIN tasks \cup {t} |-> IF i = t THEN NewTask ELSE tasks[i]]
    /\ UNCHANGED <<approval_events, evtSet, workers, approvals, nreviews, status_resp,
                   reg_call, rvars, avars, uvars>>

\* POST /start_generation, rejected (400 or 500 before line 830): the thread
\* is bound to the new id (616), add_log is called for that id on some paths,
\* nothing is registered and no thread is started.
start_rejected(code) ==
    /\ StartCount < MaxStarts
    /\ current_task' = RejectedId
    /\ start_resp' = StartResponse(code, NoTask)
    /\ tasks' = add_log(tasks, RejectedId, "assistant", "Running file conversion")
    /\ UNCHANGED <<approval_events, evtSet, workers, approvals, nreviews, status_resp,
                   reg_call, rvars, avars, uvars>>

\* POST /start_generation, accepted: bind the thread to the new id (616),
\* register the task, log the context, print, start run_processing_pipeline
\* on a new thread; the binding is still there when the handler returns.
start_generation ==
    /\ Cardinality(DOMAIN tasks) < MaxTasks
    /\ LET t == Cardinality(DOMAIN tasks) + 1
           T == [i \in DOMAIN tasks \cup {t} |->
                   IF i = t THEN NewTask
                   ELSE tasks[i]]
       IN  /\ tasks' = custom_print(add_log(T, t, "user", "User Context"), t)
           /\ workers' = Append(workers, NewWorker(t, "pipeline"))
           /\ current_task' = t
           /\ start_resp' = StartResponse(200, t)
    /\ UNCHANGED <<approval_events, evtSet, approvals, nreviews, status_resp, reg_call, rvars, avars, uvars>>

\* POST /submit_review/<task_id> with "yes" or "no <details>": a log line and
\* a new thread; neither the task's existence nor its status is looked at.
submit_review(t, feedback) ==
    /\ nreviews < MaxReviews
    /\ nreviews' = nreviews + 1
    /\ IF feedback = "yes"
       THEN /\ tasks' = add_log(tasks, t, "user", "User approved schema.")
            /\ workers' = Append(workers, NewWorker(t, "continue"))
       ELSE /\ tasks' = add_log(tasks, t, "user", "User requested corrections")
            /\ workers' = Append(workers, NewWorker(t, "correction"))
    /\ UNCHANGED <<approval_events, evtSet, approvals, status_resp, reg_call, rvars, avars, tvars, uvars>>

NewApproval(t, action, evt, pc, result) ==
    [task |-> t, action |-> action, evt |-> evt, pc |-> pc, result |-> result]

approve_no_event_Resumes(T, t) ==
    set_task_status(add_log(T, t, "assistant", "fail: Approve called, not awaiting approval"),
                    t, "User approved. Resuming...")

\* `if not evt:` (868-871): a log line, then 409.
approve_no_event(T, t) ==
    add_log(T, t, "assistant", "fail: Approve called, not awaiting approval")

\* POST /approve_action/<task_id>, up to evt = approval_events.get(task_id):
\* 400 for a bad action, 404 for an unknown task, 409 when no event is there.
approve_action(t, action) ==
    /\ Len(approvals) < MaxApprovals
    /\ UNCHANGED <<approval_events, evtSet, workers, nreviews, status_resp, reg_call, rvars, avars, tvars, uvars>>
    /\ IF action \notin {"create", "insert"}
       THEN /\ approvals' = Append(approvals, NewApproval(t, action, NoEvt, "done", "400"))
            /\ tasks' = tasks
       ELSE IF t \notin DOMAIN tasks
       THEN /\ approvals' = Append(approvals, NewApproval(t, action, NoEvt, "done", "404"))
            /\ tasks' = tasks
       ELSE IF approval_events[t] = NoEvt
       THEN /\ approvals' = Append(approvals, NewApproval(t, action, NoEvt, "done", "409"))
            /\ tasks' = approve_no_event(tasks, t)
       ELSE /\ approvals' = Append(approvals,
                                   NewApproval(t, action, approval_events[t], "set", "pending"))
            /\ tasks' = tasks

\* add_log, set_task_status, evt.set() (874-876)
approve_set(r) ==
    /\ approvals[r].pc = "set"
    /\ LET t == approvals[r].task IN
       tasks' = set_task_status(add_log(tasks, t, "user", "User approved action"),
                                t, "User approved. Resuming...")
    /\ evtSet' = evtSet \cup {approvals[r].evt}
    /\ approvals' = [approvals EXCEPT ![r].pc = "pop"]
    /\ UNCHANGED <<approval_events, workers, nreviews, status_resp, reg_call, rvars, avars, tvars, uvars>>

\* approval_events.pop(task_id, None); return ok (878-879)
approve_pop(r) ==
    /\ approvals[r].pc = "pop"
    /\ approval_events' = [approval_events EXCEPT ![approvals[r].task] = NoEvt]
    /\ approvals' = [approvals EXCEPT ![r].pc = "done", ![r].result = "ok"]
    /\ UNCHANGED <<tasks, evtSet, workers, nreviews, status_resp, reg_call, rvars, avars, tvars, uvars>>

\* GET /status/<task_id>: 404 for an unknown id, else the task as it is now.
task_status(t) ==
    /\ status_resp' =
         IF t \in DOMAIN tasks
         THEN <<[task |-> t, code |-> 200, logs |-> tasks[t].logs]>>
         ELSE <<[task |-> t, code |-> 404, logs |-> NoLogs]>>
    /\ UNCHANGED <<tasks, approval_events, evtSet, workers, approvals, nreviews,
                   reg_call, rvars, avars, tvars, uvars>>

\* ---- the registry helpers called on their own, from a request thread
\* (no current task) or from a thread whose current task is the same id.
RegCall(fn, t) ==
    <<[n |-> IF reg_call = <<>> THEN 1 ELSE reg_call[1].n + 1, fn |-> fn, task |-> t]>>

CanCall == IF reg_call = <<>> THEN TRUE ELSE reg_call[1].n < MaxRegCalls

call_add_log(t, cur, role) ==
    /\ CanCall
    /\ tasks' = add_log(custom_print(tasks, cur), t, role, "text")
    /\ reg_call' = RegCall("add_log", t)
    /\ UNCHANGED <<approval_events, evtSet, workers, approvals, nreviews, status_resp,
                   rvars, avars, tvars, uvars>>

call_set_task_status(t, cur, status) ==
    /\ CanCall
    /\ tasks' = set_task_status(custom_print(tasks, cur), t, status)
    /\ reg_call' = RegCall("set_task_status", t)
    /\ UNCHANGED <<approval_events, evtSet, workers, approvals, nreviews, status_resp,
                   rvars, avars, tvars, uvars>>

call_attach_system_log(t) ==
    /\ CanCall
    /\ tasks' = attach_system_log(tasks, t)
    /\ reg_call' = RegCall("_attach_system_log", t)
    /\ UNCHANGED <<approval_events, evtSet, workers, approvals, nreviews, status_resp,
                   rvars, avars, tvars, uvars>>

call_custom_print(cur) ==
    /\ CanCall
    /\ tasks' = custom_print(tasks, cur)
    /\ reg_call' = RegCall("_custom_print", cur)
    /\ UNCHANGED <<approval_events, evtSet, workers, approvals, nreviews, status_resp,
                   rvars, avars, tvars, uvars>>

GNext ==
    \/ start_generation
    \/ \E t \in Ids, role \in {"user", "assistant"} :
          \E cur \in {NoTask, t} : call_add_log(t, cur, role)
    \/ \E t \in Ids, status \in {"Starting...", "Completed"} :
          \E cur \in {NoTask, t} : call_set_task_status(t, cur, status)
    \/ \E t \in Ids : call_attach_system_log(t)
    \/ \E cur \in Ids : call_custom_print(cur)

\* ------------------------------------------------------------ the service
FInit ==
    /\ current_task = NoTask
    /\ start_resp = <<>>
    /\ status_resp = <<>>
    /\ reg_call = <<>>
    /\ tasks = <<>>
    /\ approval_events = [t \in Ids |-> NoEvt]
    /\ evtSet = {}
    /\ workers = <<>>
    /\ approvals = <<>>
    /\ nreviews = 0

FNext ==
    \/ start_generation
    \/ \E t \in Ids, feedback \in {"yes", "no"} : submit_review(t, feedback)
    \/ \E t \in Ids, action \in Actions : approve_action(t, action)
    \/ \E r \in DOMAIN approvals : approve_set(r)
    \/ \E r \in DOMAIN approvals : approve_pop(r)
    \/ \E w \in DOMAIN workers : WorkerBegin(w)
    \/ \E w \in DOMAIN workers : GenerateMetadata(w)
    \/ \E w \in DOMAIN workers : GenerateDimensionalModel(w)
    \/ \E w \in DOMAIN workers : UserCorrection(w)
    \/ \E w \in DOMAIN workers : GenerateSchema(w)
    \/ \E w \in DOMAIN workers : RunPhase1(w)
    \/ \E w \in DOMAIN workers : RunPhase2(w)
    \/ \E w \in DOMAIN workers : Correction(w)
    \/ \E w \in DOMAIN workers : RegenSchema(w)
    \/ \E w \in DOMAIN workers : GenerateCreateScript(w)
    \/ \E w \in DOMAIN workers : OpenGate(w)
    \/ \E w \in DOMAIN workers : WaitGate(w)
    \/ \E w \in DOMAIN workers : ExecuteCreate(w)
    \/ \E w \in DOMAIN workers : GenerateInsertScript(w)
    \/ \E w \in DOMAIN workers : ExecuteInsert(w)

\* Start requests, accepted and rejected, with the worker of the new task
\* and a client that polls GET /status.
SNext ==
    \/ start_generation
    \/ \E code \in {400, 500} : start_rejected(code)
    \/ \E t \in Ids : task_status(t)
    \/ \E w \in DOMAIN workers : WorkerBegin(w)
    \/ \E w \in DOMAIN workers : GenerateMetadata(w)
    \/ \E w \in DOMAIN workers : GenerateDimensionalModel(w)
    \/ \E w \in DOMAIN workers : GenerateSchema(w)
    \/ \E w \in DOMAIN workers : RunPhase1(w)
    \/ \E w \in DOMAIN workers : RunPhase2(w)
    \/ \E w \in DOMAIN workers : Correction(w)
    \/ \E w \in DOMAIN workers : RegenSchema(w)

\* The service with a client that polls GET /status while it sends its
\* requests: reviews and, one after another, approvals of registered tasks.
MaxPolledApprovals == 2

LNext ==
    \/ start_generation
    \/ \E t \in DOMAIN tasks, feedback \in {"yes", "no"} : submit_review(t, feedback)
    \/ \E t \in DOMAIN tasks :
          /\ Len(approvals) < MaxPolledApprovals
          /\ \A r \in DOMAIN approvals : approvals[r].pc = "done"
          /\ approve_action(t, "create")
    \/ \E r \in DOMAIN approvals : approve_set(r)
    \/ \E r \in DOMAIN approvals : approve_pop(r)
    \/ \E t \in Ids : task_status(t)
    \/ \E w \in DOMAIN workers : WorkerBegin(w)
    \/ \E w \in DOMAIN workers : GenerateMetadata(w)
    \/ \E w \in DOMAIN workers : GenerateDimensionalModel(w)
    \/ \E w \in DOMAIN workers : UserCorrection(w)
    \/ \E w \in DOMAIN workers : GenerateSchema(w)
    \/ \E w \in DOMAIN workers : RunPhase1(w)
    \/ \E w \in DOMAIN workers : RunPhase2(w)
    \/ \E w \in DOMAIN workers : Correction(w)
    \/ \E w \in DOMAIN workers : RegenSchema(w)
    \/ \E w \in DOMAIN workers : GenerateCreateScript(w)
    \/ \E w \in DOMAIN workers : OpenGate(w)
    \/ \E w \in DOMAIN workers : WaitGate(w)
    \/ \E w \in DOMAIN workers : ExecuteCreate(w)
    \/ \E w \in DOMAIN workers : GenerateInsertScript(w)
    \/ \E w \in DOMAIN workers : ExecuteInsert(w)

\* ------------------------------------------------------------ the sandbox
RunTimeout == 2
MaxOut == 1
MaxSize == 2
\* max_wait_s counted in stability intervals (6.0 s / 0.25 s in the source).
MaxWaitPolls == 2

\* The run directory: the script, a data file that is there before the run,
\* two files and a directory the script may create.
ScriptName == "generated_script.py"
Names == {ScriptName, "old.csv", "out.csv", "run.log", "figs.png"}
ArtifactNames == {"old.csv", "out.csv", "run.log"}
DirNames == {"figs.png"}
\* Files a process started by the script keeps writing after the script ended.
LateNames == {"out.csv"}

\* name.lower().endswith((...)): the extension of each name of the model.
Ext(name) ==
    CASE name = ScriptName -> ".py"
      [] name \in {"old.csv", "out.csv"} -> ".csv"
      [] name = "run.log" -> ".log"
      [] OTHER -> ".png"

AllowList == {".png", ".jpg", ".jpeg", ".svg", ".gif", ".pdf", ".csv", ".txt", ".sql"}
FallbackAllowList == {".png", ".jpg", ".jpeg", ".svg", ".gif", ".pdf", ".csv", ".txt"}

\* Directory entries: mtime 0 is "before the run", 1 "during the run".
Absent == [kind |-> "absent", size |-> 0, mtime |-> 0]
File(size, mtime) == [kind |-> "file", size |-> size, mtime |-> mtime]
Dir == [kind |-> "dir", size |-> 0, mtime |-> 1]
EmptyDir == [n \in Names |-> Absent]

listdir(F) == {n \in Names : F[n].kind # "absent"}
isfile(F, n) == F[n].kind = "file"
exists(F, n) == F[n].kind # "absent"

Range(s) == {s[i] : i \in DOMAIN s}
\* The orders in which os.listdir may enumerate a set of names.
Orders(S) ==
    {s \in [1 .. Cardinality(S) -> S] : \A i, j \in 1 .. Cardinality(S) : s[i] = s[j] => i = j}

NoRet == <<>>

\* Locals of _wait_for_new_files_stable; polls records what getsize returned
\* for each path and when.
NoWait ==
    [todo |-> {}, attempted |-> {}, cur |-> "none", last_size |-> 0,
     stable_files |-> <<>>, clock |-> 0, warned |-> {},
     polls |-> [n \in Names |-> <<>>]]

RIdle ==
    /\ rpc = "entry" /\ path = "main" /\ child = "none" /\ returncode = <<>>
    /\ desc = "none" /\ clock = 0 /\ out = 0 /\ made = {} /\ ret = NoRet
    /\ fs = EmptyDir /\ before_files = {} /\ waiter = NoWait

\* Entry of run_python_code. In the main path before_files is the listing
\* taken at 126; in the fallback the directory is a fresh temporary one that
\* holds the copy of ./Run_Space, and before_files is that copy.
RInit ==
    /\ rpc = "entry"
    /\ path \in {"main", "fallback"}     \* os.path.isdir(run_space_dir)
    /\ child = "none" /\ returncode = <<>> /\ desc = "none"
    /\ clock = 0 /\ out = 0 /\ made = {} /\ ret = NoRet
    /\ \E pre \in [{ScriptName, "old.csv"} -> {Absent, File(1, 0)}] :
         fs = [n \in Names |-> IF n \in DOMAIN pre THEN pre[n] ELSE Absent]
    /\ before_files = listdir(fs)
    /\ waiter = NoWait

\* A return statement of run_python_code. Leaving the `with
\* tempfile.TemporaryDirectory()` block of the fallback removes the
\* directory and everything in it.
Return(code, stdout, files, at) ==
    /\ rpc' = "returned"
    /\ ret' = <<[returncode |-> code, stdout |-> stdout, files |-> files, at |-> at]>>
    /\ fs' = IF path = "fallback" THEN EmptyDir ELSE fs

\* open(script_path, "w") and the os.path.exists re-check (131-144, 212-223).
write_script ==
    /\ rpc = "entry"
    /\ \/ /\ rpc' = "launch" /\ ret' = ret
          /\ fs' = [fs EXCEPT ![ScriptName] = File(1, 1)]
       \/ Return(WriteFailCode, 0, <<>>, "write_failed")
       \/ Return(WriteFailCode, 0, <<>>, "script_missing")
    /\ UNCHANGED <<path, child, returncode, desc, clock, out, made,
                   before_files, waiter, fvars, avars, tvars, uvars>>

\* subprocess.Popen (151) in the main path, subprocess.run (225) in the
\* fallback: only the main path catches a launch error.
launch ==
    /\ rpc = "launch"
    /\ \/ /\ rpc' = "communicate" /\ child' = "running" /\ ret' = ret /\ fs' = fs
       \/ /\ path = "main"
          /\ Return(LaunchFailCode, 0, <<>>, "launch_failed")
          /\ child' = child
       \/ /\ path = "fallback"
          /\ rpc' = "raised" /\ ret' = ret /\ child' = child /\ fs' = EmptyDir
    /\ UNCHANGED <<path, returncode, desc, clock, out, made,
                   before_files, waiter, fvars, avars, tvars, uvars>>

\* ---- what the script does while it runs
child_print ==
    /\ child = "running" /\ out < MaxOut /\ rpc = "communicate"
    /\ out' = out + 1
    /\ UNCHANGED <<rpc, path, child, returncode, desc, clock, made, ret,
                   fs, before_files, waiter, fvars, avars, tvars, uvars>>

\* The script creates a file, or rewrites one that was there before the run.
child_write_file(name, size) ==
    /\ child = "running" /\ name \notin made
    /\ fs[name].kind # "absent" \/ size = 1
    /\ made' = made \cup {name}
    /\ fs' = [fs EXCEPT ![name] = File(size, 1)]
    /\ UNCHANGED <<rpc, path, child, returncode, desc, clock, out, ret,
                   before_files, waiter, fvars, avars, tvars, uvars>>

child_mkdir(name) ==
    /\ child = "running" /\ fs[name].kind = "absent"
    /\ fs' = [fs EXCEPT ![name] = Dir]
    /\ UNCHANGED <<rpc, path, child, returncode, desc, clock, out, made, ret,
                   before_files, waiter, fvars, avars, tvars, uvars>>

\* The script starts a process of its own: "running" inherits the pipes,
\* "detached" has its output redirected elsewhere.
child_spawn ==
    /\ child = "running" /\ desc = "none"
    /\ desc' \in {"running", "detached"}
    /\ UNCHANGED <<rpc, path, child, returncode, clock, out, made, ret,
                   fs, before_files, waiter, fvars, avars, tvars, uvars>>

\* The script ends by itself: exit status, or -N when signal N ended it.
child_exit(code) ==
    /\ child = "running"
    /\ child' = "exited"
    /\ returncode' = <<code>>
    /\ UNCHANGED <<rpc, path, desc, clock, out, made, ret,
                   fs, before_files, waiter, fvars, avars, tvars, uvars>>

Alive(p) == p \in {"running", "detached"}

desc_exit ==
    /\ Alive(desc)
    /\ desc' = "gone"
    /\ UNCHANGED <<rpc, path, child, returncode, clock, out, made, ret,
                   fs, before_files, waiter, fvars, avars, tvars, uvars>>

\* The started process goes on writing its file while the caller waits for
\* the new files to become stable.
Waiting == rpc \in {"listdir", "for", "poll"}

desc_write(name, size) ==
    /\ Alive(desc) /\ Waiting
    /\ fs[name].kind # "dir" /\ fs[name].size # size
    /\ fs' = [fs EXCEPT ![name] = File(size, 1)]
    /\ UNCHANGED <<rpc, path, child, returncode, desc, clock, out, made, ret,
                   before_files, waiter, fvars, avars, tvars, uvars>>

desc_delete(name) ==
    /\ Alive(desc) /\ Waiting
    /\ fs[name].kind = "file"
    /\ fs' = [fs EXCEPT ![name] = Absent]
    /\ UNCHANGED <<rpc, path, child, returncode, desc, clock, out, made, ret,
                   before_files, waiter, fvars, avars, tvars, uvars>>

tick ==
    /\ rpc = "communicate" /\ clock < RunTimeout
    /\ clock' = clock + 1
    /\ UNCHANGED <<rpc, path, child, returncode, desc, out, made, ret,
                   fs, before_files, waiter, fvars, avars, tvars, uvars>>

\* communicate() ends when the child has ended and both pipes are at EOF,
\* that is when no process holds their write ends any more.
PipesClosed == child # "running" /\ desc # "running"

\* The fallback's artifact list (230-239): every allow-listed regular file of
\* the temporary directory except the script, in listing order.
FallbackProduced(order) ==
    SelectSeq(order, LAMBDA n : n # ScriptName /\ isfile(fs, n)
                                  /\ Ext(n) \in FallbackAllowList)

\* A run that ended by itself. The main path goes on to
\* _wait_for_new_files_stable (166); the fallback lists the temporary
\* directory and returns (230-250).
communicate_returns ==
    /\ rpc = "communicate" /\ PipesClosed
    /\ IF path = "main"
       THEN /\ rpc' = "listdir" /\ ret' = ret /\ fs' = fs
            /\ waiter' = NoWait
       ELSE /\ \E order \in Orders(listdir(fs)) :
                 Return(returncode[1], out, FallbackProduced(order), "completed")
            /\ waiter' = waiter
    /\ UNCHANGED <<path, child, returncode, desc, clock, out, made,
                   before_files, fvars, avars, tvars, uvars>>

\* TimeoutExpired: proc.kill() ends the child only. The main path then reads
\* the pipes for 5 more seconds (156-158); subprocess.run waits for the child
\* and re-raises, and the fallback returns (226-228).
communicate_timeout ==
    /\ rpc = "communicate" /\ clock = RunTimeout /\ ~ PipesClosed
    /\ child' = IF child = "running" THEN "killed" ELSE child
    /\ returncode' = IF child = "running" THEN <<0 - 9>> ELSE returncode
    /\ IF path = "main"
       THEN rpc' = "drain" /\ ret' = ret /\ fs' = fs
       ELSE Return(TimeoutCode, out, <<>>, "timeout")
    /\ UNCHANGED <<path, desc, clock, out, made, before_files, waiter, fvars, avars, tvars, uvars>>

\* proc.communicate(timeout=5) after the kill: EOF, or a second
\* TimeoutExpired that the outer `except Exception` turns into -3 (159-161).
drain ==
    /\ rpc = "drain"
    /\ IF desc # "running"
       THEN Return(TimeoutCode, out, <<>>, "timeout")
       ELSE Return(LaunchFailCode, 0, <<>>, "launch_failed")
    /\ UNCHANGED <<path, child, returncode, desc, clock, out, made,
                   before_files, waiter, fvars, avars, tvars, uvars>>

\* ---- _wait_for_new_files_stable (27-82)
\* time.time() - start > max_wait_s
TimeExhausted(t) == t > MaxWaitPolls

\* cur_size == last_size (61)
SizeStable_Always(cur_size, last_size) == TRUE

SizeStable(cur_size, last_size) == cur_size = last_size

\* 38-41: after_names - before_set.
wait_listdir ==
    /\ rpc = "listdir"
    /\ waiter' = [waiter EXCEPT !.todo = listdir(fs) \ before_files]
    /\ rpc' = "for"
    /\ UNCHANGED <<path, child, returncode, desc, clock, out, made, ret,
                   fs, before_files, fvars, avars, tvars, uvars>>

wait_for_next_Forgets ==
    /\ rpc = "for" /\ waiter.todo # {}
    /\ \E p \in waiter.todo :
         IF ~ isfile(fs, p)
         THEN /\ waiter' = [waiter EXCEPT !.todo = @ \ {p}]
              /\ rpc' = rpc
         ELSE /\ waiter' = [waiter EXCEPT !.todo = @ \ {p},
                                          !.cur = p,
                                          !.last_size = fs[p].size,
                                          !.polls[p] = <<<<fs[p].size, waiter.clock>>>>]
              /\ rpc' = "poll"
    /\ UNCHANGED <<path, child, returncode, desc, clock, out, made, ret,
                   fs, before_files, fvars, avars, tvars, uvars>>

\* 43-53: the next path of the listing, in any order; a path is attempted
\* once, and only regular files are polled.
wait_for_next ==
    /\ rpc = "for" /\ waiter.todo # {}
    /\ \E p \in waiter.todo :
         IF p \in waiter.attempted \/ ~ isfile(fs, p)
         THEN /\ waiter' = [waiter EXCEPT !.todo = @ \ {p},
                                          !.attempted = @ \cup {p}]
              /\ rpc' = rpc
         ELSE /\ waiter' = [waiter EXCEPT !.todo = @ \ {p},
                                          !.attempted = @ \cup {p},
                                          !.cur = p,
                                          !.last_size = fs[p].size,
                                          !.polls[p] = <<<<fs[p].size, waiter.clock>>>>]
              /\ rpc' = "poll"
    /\ UNCHANGED <<path, child, returncode, desc, clock, out, made, ret,
                   fs, before_files, fvars, avars, tvars, uvars>>

\* 54-69: sleep one interval and read the size again.
wait_poll ==
    /\ rpc = "poll"
    /\ LET p == waiter.cur
           now == waiter.clock + 1
           seen == [waiter EXCEPT !.clock = now,
                                  !.polls[p] = Append(@, <<fs[p].size, now>>)]
       IN  IF ~ exists(fs, p)
           THEN /\ waiter' = [waiter EXCEPT !.clock = now, !.cur = "none"]
                /\ rpc' = "for"
           ELSE IF SizeStable(fs[p].size, waiter.last_size)
           THEN /\ waiter' = [seen EXCEPT !.stable_files = Append(@, p), !.cur = "none"]
                /\ rpc' = "for"
           ELSE IF TimeExhausted(now)
           THEN /\ waiter' = [seen EXCEPT !.warned = @ \cup {p}, !.cur = "none",
                                          !.last_size = fs[p].size]
                /\ rpc' = "for"
           ELSE /\ waiter' = [seen EXCEPT !.last_size = fs[p].size]
                /\ rpc' = rpc
    /\ UNCHANGED <<path, child, returncode, desc, clock, out, made, ret,
                   fs, before_files, fvars, avars, tvars, uvars>>

\* 72-80: the end of one pass. stable_files is non-empty only after at least
\* one stability interval, which is longer than the 0.1 s of line 79.
wait_pass_done ==
    /\ rpc = "for" /\ waiter.todo = {}
    /\ IF TimeExhausted(waiter.clock) \/ waiter.stable_files # <<>>
       THEN rpc' = "filter" /\ waiter' = waiter
       ELSE /\ rpc' = "listdir"
            /\ \E dt \in {0, 1} : waiter' = [waiter EXCEPT !.clock = @ + dt]
    /\ UNCHANGED <<path, child, returncode, desc, clock, out, made, ret,
                   fs, before_files, fvars, avars, tvars, uvars>>

\* dict.fromkeys(stable_files): the first occurrence of each path.
RECURSIVE fromkeys(_)
fromkeys(s) ==
    IF s = <<>> THEN <<>>
    ELSE LET r == fromkeys(SubSeq(s, 1, Len(s) - 1))
         IN  IF s[Len(s)] \in Range(r) THEN r ELSE Append(r, s[Len(s)])

\* 82: [p for p in dict.fromkeys(stable_files) if os.path.exists(p)]
StableResult(F, stable_files) == SelectSeq(fromkeys(stable_files), LAMBDA p : exists(F, p))

\* 171-178: the filter of run_python_code on the candidates.
Produced(F, candidates) ==
    SelectSeq(candidates, LAMBDA n : n # ScriptName /\ isfile(F, n)
                                       /\ Ext(n) \in AllowList)

\* 82 and 171-189.
filter_return ==
    /\ rpc = "filter"
    /\ Return(returncode[1], out, Produced(fs, StableResult(fs, waiter.stable_files)),
              "completed")
    /\ UNCHANGED <<path, child, returncode, desc, clock, out, made,
                   before_files, waiter, fvars, avars, tvars, uvars>>

RNext ==
    \/ write_script
    \/ launch
    \/ child_print
    \/ \E name \in ArtifactNames, size \in 1 .. MaxSize : child_write_file(name, size)
    \/ \E name \in DirNames : child_mkdir(name)
    \/ child_spawn
    \/ \E code \in PopenReturnCodes : child_exit(code)
    \/ desc_exit
    \/ tick
    \/ communicate_returns
    \/ communicate_timeout
    \/ drain
    \/ wait_listdir
    \/ wait_for_next
    \/ wait_poll
    \/ wait_pass_done
    \/ filter_return

\* The call of _wait_for_new_files_stable at line 166 on its own: the script
\* has ended, the directory holds what it left, and a process it started may
\* still be writing.
WInit ==
    /\ rpc = "listdir" /\ path = "main" /\ child = "exited" /\ returncode = <<0>>
    /\ desc \in {"none", "detached"}
    /\ clock = 0 /\ out = 0 /\ ret = NoRet
    /\ fs \in {F \in [Names -> {Absent, Dir} \cup {File(z, m) : z \in 1 .. MaxSize, m \in 0 .. 1}] :
                 /\ F[ScriptName] = File(1, 1)
                 /\ \A n \in DirNames : F[n] \in {Absent, Dir}
                 /\ \A n \in ArtifactNames : F[n] # Dir
                 /\ \A n \in ArtifactNames \ {"old.csv"} : F[n] = Absent \/ F[n].mtime = 1
                 /\ \A n \in Names \ LateNames : F[n].size <= 1}
    /\ \E old \in SUBSET {ScriptName, "old.csv"} : before_files = old \cap listdir(fs)
    /\ made = {n \in ArtifactNames : fs[n].mtime = 1}
    /\ waiter = NoWait

WNext ==
    \/ desc_exit
    \/ \E name \in LateNames, size \in 1 .. MaxSize : desc_write(name, size)
    \/ \E name \in LateNames : desc_delete(name)
    \/ wait_listdir
    \/ wait_for_next
    \/ wait_poll
    \/ wait_pass_done
    \/ filter_return

\* ------------------------------------------- the Streamlit stage machine
MaxChat == 18

add_msg(history, role, text) == list_append(history, [role |-> role, text |-> text])

AInit ==
    /\ processing_step = "idle"
    /\ model_generated = FALSE
    /\ schema_chat_history =
         add_msg(NoLogs, "assistant", "Hi! Upload your CSVs or paste a SharePoint link")

\* "Generate Dimensional Model": shown while no model has been generated,
\* whatever processing_step is (148-176).
generate_click(source_provided, context_provided) ==
    /\ schema_chat_history.n < MaxChat
    /\ ~ model_generated
    /\ IF source_provided /\ context_provided
       THEN /\ schema_chat_history' =
                 add_msg(add_msg(schema_chat_history, "user", "source"), "user", "Context")
            /\ processing_step' = "start"
       ELSE /\ schema_chat_history' =
                 add_msg(schema_chat_history, "assistant", "Please provide a data source and context")
            /\ processing_step' = processing_step
    /\ model_generated' = model_generated
    /\ UNCHANGED <<fvars, rvars, tvars, uvars>>

NextStep_SkipCorrection ==
    [start |-> "generate_model", generate_model |-> "generate_schema",
     generate_schema |-> "run_phase1", run_phase1 |-> "run_phase2",
     run_phase2 |-> "UserReview", correction |-> "UserReview",
     Code_Generation |-> "Table_Creation", Table_Creation |-> "cleanup"]

\* The stage each handler hands over to when it returns.
NextStep ==
    [start |-> "generate_model", generate_model |-> "generate_schema",
     generate_schema |-> "run_phase1", run_phase1 |-> "run_phase2",
     run_phase2 |-> "correction", correction |-> "UserReview",
     Code_Generation |-> "Table_Creation", Table_Creation |-> "cleanup"]

\* One rerun of the script at a stage with a single handler (182-236, 268-285).
run_stage ==
    /\ schema_chat_history.n < MaxChat
    /\ processing_step \in DOMAIN NextStep
    /\ schema_chat_history' = add_msg(schema_chat_history, "assistant", "ok")
    /\ processing_step' = NextStep[processing_step]
    /\ model_generated' = model_generated
    /\ UNCHANGED <<fvars, rvars, tvars, uvars>>

\* The review stage: corrections loop back to run_phase1, none moves on (238-266).
user_review(corrections_required, user_input) ==
    /\ schema_chat_history.n < MaxChat
    /\ processing_step = "UserReview"
    /\ IF corrections_required
       THEN /\ schema_chat_history' =
                 add_msg(IF user_input
                         THEN add_msg(schema_chat_history, "user", "User feedback")
                         ELSE schema_chat_history,
                         "assistant", "ok")
            /\ processing_step' = "run_phase1"
       ELSE /\ schema_chat_history' =
                 add_msg(schema_chat_history, "assistant", "No corrections needed")
            /\ processing_step' = "Code_Generation"
    /\ model_generated' = model_generated
    /\ UNCHANGED <<fvars, rvars, tvars, uvars>>

\* The last stage (288-293).
cleanup ==
    /\ schema_chat_history.n < MaxChat
    /\ processing_step = "cleanup"
    /\ schema_chat_history' =
         add_msg(add_msg(schema_chat_history, "assistant", "Source CSV files have been cleared"),
                 "assistant", "Please review the schema below.")
    /\ model_generated' = TRUE
    /\ processing_step' = "idle"
    /\ UNCHANGED <<fvars, rvars, tvars, uvars>>

\* A handler raised: the except block of the pipeline (294-297).
stage_raises ==
    /\ schema_chat_history.n < MaxChat
    /\ processing_step \in (DOMAIN NextStep) \cup {"UserReview"}
    /\ schema_chat_history' = add_msg(schema_chat_history, "assistant", "fail: Error during generation: <e>")
    /\ processing_step' = "idle"
    /\ model_generated' = model_generated
    /\ UNCHANGED <<fvars, rvars, tvars, uvars>>

ANext ==
    \/ \E source_provided \in BOOLEAN, context_provided \in BOOLEAN :
         generate_click(source_provided, context_provided)
    \/ run_stage
    \/ \E corrections_required \in BOOLEAN, user_input \in BOOLEAN :
         user_review(corrections_required, user_input)
    \/ cleanup
    \/ stage_raises

AIdle ==
    /\ processing_step = "idle" /\ model_generated = FALSE /\ schema_chat_history = NoLogs

\* ------------------------------------ ordering of the CREATE TABLE blocks
\* modules/reorder_create_sql.py. Tables are numbered; a graph is a dict
\* given by its keys in insertion order and the set of names each key
\* references, which may hold the key itself and names that are no key.
MaxTables == 3
Tables == 1 .. MaxTables

NoTopo == [keys |-> <<>>, input_graph |-> <<>>, ret |-> <<>>]

\* in_degree[node] after lines 70-74: the references that are keys.
in_degree_AllRefs(keys, graph, node) == Cardinality(graph[node])

in_degree(keys, graph, node) == Cardinality({dep \in graph[node] : dep \in Range(keys)})

\* The while loop of lines 77-86 on the copy `graph`: pop the head, append it
\* to `ordered`, remove it from every set that holds it and queue, in key
\* order, the keys whose count reaches 0.
RECURSIVE topo_loop(_, _, _, _, _)
topo_loop(keys, graph, deg, queue, ordered) ==
    IF queue = <<>> THEN ordered
    ELSE LET n == Head(queue)
             hit == {m \in Range(keys) : n \in graph[m]}
             graph2 == [m \in DOMAIN graph |-> graph[m] \ {n}]
             deg2 == [m \in DOMAIN deg |-> IF m \in hit THEN deg[m] - 1 ELSE deg[m]]
             ready == SelectSeq(keys, LAMBDA m : m \in hit /\ deg2[m] = 0)
         IN  topo_loop(keys, graph2, deg2, Tail(queue) \o ready, Append(ordered, n))

\* topological_sort (68-89): the pair (ok, ordered).
topological_sort(keys, input_graph) ==
    LET graph == input_graph      \* copy.deepcopy(input_graph)
        deg == [n \in Range(keys) |-> in_degree(keys, graph, n)]
        queue == SelectSeq(keys, LAMBDA n : deg[n] = 0)
        ordered == topo_loop(keys, graph, deg, queue, <<>>)
    IN  IF Len(ordered) # Cardinality(Range(keys)) THEN <<FALSE, ordered>>
        ELSE <<TRUE, ordered>>

\* build_dependency_graph (58-66) keeps, for each block, the referenced names
\* other than the block's own that are names of blocks.
build_dependency_graph(keys, refs) ==
    [name \in Range(keys) |-> {r \in refs[name] : r # name /\ r \in Range(keys)}]

TopoInit ==
    \E S \in SUBSET Tables :
       \E keys \in Orders(S) :
          \E g \in [S -> SUBSET Tables] :
             topo = [keys |-> keys, input_graph |-> g, ret |-> <<>>]

\* The graph is passed as build_dependency_graph left it, or as it is.
topo_call ==
    /\ topo.ret = <<>>
    /\ topo' = [topo EXCEPT !.ret = topological_sort(topo.keys, topo.input_graph)]
    /\ UNCHANGED <<retry, fvars, rvars, avars, tvars>>

topo_build ==
    /\ topo.ret = <<>>
    /\ topo.input_graph # build_dependency_graph(topo.keys, topo.input_graph)
    /\ topo' = [topo EXCEPT !.input_graph = build_dependency_graph(topo.keys, topo.input_graph)]
    /\ UNCHANGED <<retry, fvars, rvars, avars, tvars>>

TNext ==
    \/ topo_build
    \/ topo_call

\* ---------------------------------------------------- execute_with_retry
\* modules/db_utils.py 47-69. The connection is the input: each call on it
\* returns, raises a mysql.connector.Error or raises another exception.
MaxRetries == 3

CallOutcomes == {"ok", "Error", "Exception"}

NoRetry ==
    [pc |-> "idle", retries |-> 0, i |-> 0, executes |-> 0, commits |-> 0,
     rollbacks |-> 0, db_errors |-> 0, other_errors |-> 0, raised |-> "none",
     result |-> "none"]

RetryInit ==
    \E retries \in 0 .. MaxRetries : retry = [NoRetry EXCEPT !.pc = "for", !.retries = retries]

\* An exception leaves the with block (56-59): to the handler of its class.
retry_raise(r, outcome) ==
    IF outcome = "Error"
    THEN [r EXCEPT !.pc = "except_Error", !.db_errors = @ + 1, !.raised = outcome]
    ELSE [r EXCEPT !.pc = "except_Exception", !.other_errors = @ + 1, !.raised = outcome]

\* for i in range(retries) (54), and the raise after the loop (69).
retry_for ==
    /\ retry.pc = "for"
    /\ retry' = IF retry.i < retry.retries
                THEN [retry EXCEPT !.pc = "cursor"]
                ELSE [retry EXCEPT !.pc = "done", !.result = "Failed to execute query"]
    /\ UNCHANGED <<topo, fvars, rvars, avars, tvars>>

\* with conn.cursor() as cur (56)
retry_cursor(outcome) ==
    /\ retry.pc = "cursor"
    /\ retry' = IF outcome = "ok" THEN [retry EXCEPT !.pc = "execute"]
                ELSE retry_raise(retry, outcome)
    /\ UNCHANGED <<topo, fvars, rvars, avars, tvars>>

\* cur.execute(sql_query, params) (57)
retry_execute(outcome) ==
    /\ retry.pc = "execute"
    /\ retry' = IF outcome = "ok" THEN [retry EXCEPT !.pc = "commit", !.executes = @ + 1]
                ELSE retry_raise([retry EXCEPT !.executes = @ + 1], outcome)
    /\ UNCHANGED <<topo, fvars, rvars, avars, tvars>>

\* conn.commit(), then return (58-59)
retry_commit(outcome) ==
    /\ retry.pc = "commit"
    /\ retry' = IF outcome = "ok"
                THEN [retry EXCEPT !.pc = "done", !.commits = @ + 1, !.result = "returned"]
                ELSE retry_raise(retry, outcome)
    /\ UNCHANGED <<topo, fvars, rvars, avars, tvars>>

\* except Error: conn.rollback(), warning, sleep, delay *= 2 (60-64). An
\* exception of rollback() leaves the function.
retry_except_Error(outcome) ==
    /\ retry.pc = "except_Error"
    /\ retry' = IF outcome = "ok"
                THEN [retry EXCEPT !.pc = "for", !.i = @ + 1, !.rollbacks = @ + 1]
                ELSE [retry EXCEPT !.pc = "done", !.result = "rollback raised"]
    /\ UNCHANGED <<topo, fvars, rvars, avars, tvars>>

\* except Exception: conn.rollback(), error log, raise (65-68).
retry_except_Exception(outcome) ==
    /\ retry.pc = "except_Exception"
    /\ retry' = IF outcome = "ok"
                THEN [retry EXCEPT !.pc = "done", !.rollbacks = @ + 1, !.result = "re-raised"]
                ELSE [retry EXCEPT !.pc = "done", !.result = "rollback raised"]
    /\ UNCHANGED <<topo, fvars, rvars, avars, tvars>>

YNext ==
    \/ retry_for
    \/ \E outcome \in CallOutcomes : retry_cursor(outcome)
    \/ \E outcome \in CallOutcomes : retry_execute(outcome)
    \/ \E outcome \in CallOutcomes : retry_commit(outcome)
    \/ \E outcome \in {"ok", "Error"} : retry_except_Error(outcome)
    \/ \E outcome \in {"ok", "Error"} : retry_except_Exception(outcome)

UIdle == topo = NoTopo /\ retry = NoRetry

\* ------------------------------------------------------ specifications
vars == <<fvars, rvars, avars, tvars, uvars>>

Init == FInit /\ RIdle /\ AIdle /\ UIdle
Next == FNext
Spec == Init /\ [][Next]_vars

InitApp == FInit /\ RIdle /\ AInit /\ UIdle
SpecApp == InitApp /\ [][ANext]_vars

InitRun == FInit /\ RInit /\ AIdle /\ UIdle
SpecRun == InitRun /\ [][RNext]_vars

SpecLog == Init /\ [][LNext]_vars
SpecReg == Init /\ [][GNext]_vars
SpecStart == Init /\ [][SNext]_vars

InitWait == FInit /\ WInit /\ AIdle /\ UIdle
SpecWait == InitWait /\ [][WNext]_vars

\* The caller's thread keeps running, and the sleeps of 54-55 and 76 let
\* time.time() advance; nothing is assumed of the process that writes.
WaitFairness ==
    /\ WF_vars(wait_listdir)
    /\ WF_vars(wait_for_next)
    /\ WF_vars(wait_poll)
    /\ WF_vars(wait_pass_done)
    /\ SF_vars(wait_pass_done /\ waiter'.clock > waiter.clock)
    /\ WF_vars(filter_return)

SpecWaitFair == SpecWait /\ WaitFairness

InitTopo == FInit /\ RIdle /\ AIdle /\ TopoInit /\ retry = NoRetry
SpecTopo == InitTopo /\ [][TNext]_vars

InitRetry == FInit /\ RIdle /\ AIdle /\ RetryInit /\ topo = NoTopo
SpecRetry == InitRetry /\ [][YNext]_vars

\* ================================================================ claims

\* The gate a request took from approval_events, by name.
GateOf(e) == e[2]

\* An Approve request has set the event e (it is at, or past, evt.set()).
Fired(e) ==
    \E r \in DOMAIN approvals :
        approvals[r].evt = e /\ approvals[r].pc \in {"pop", "done"}

\* C1: an Approve whose action differs from the name of the gate the worker
\* is parked at reports failure and releases nothing; only the matching name
\* succeeds.
C1_MismatchedApproveFails ==
    \A r \in DOMAIN approvals :
        approvals[r].result \in {"pending", "ok"}
            => approvals[r].action = GateOf(approvals[r].evt)

\* C2: for every gate, at most one Approve returns success.
C2_AtMostOneSuccessPerGate ==
    \A r1, r2 \in DOMAIN approvals :
        (r1 # r2 /\ approvals[r1].result = "ok" /\ approvals[r2].result = "ok")
            => approvals[r1].evt # approvals[r2].evt

\* C3: at most one background worker thread is active for a task id.
C3_OneWorkerPerTask ==
    \A w1, w2 \in DOMAIN workers :
        (w1 # w2 /\ Active(w1) /\ Active(w2)) => workers[w1].task # workers[w2].task

\* Positions of the continuation worker from the execution of a script on.
AfterCreateGate ==
    {"execute_create", "generate_insert_script", "open_insert", "wait_insert", "execute_insert"}

\* C4: a worker executes the CREATE (INSERT) script only after an Approve set
\* the event that this worker had opened for that gate; a worker parked at a
\* gate nobody has fired does not move.
C4_NoScriptWithoutApproval ==
    /\ [](\A w \in DOMAIN workers :
            /\ workers[w].pc \in AfterCreateGate => Fired(EvtOf(w, "create"))
            /\ workers[w].pc = "execute_insert" => Fired(EvtOf(w, "insert"))
            /\ workers[w].result # NoResult => Fired(EvtOf(w, "create"))
            /\ \A g \in {"create", "insert"} :
                 Fired(EvtOf(w, g)) => workers[w].pc \notin {"start", "generate_create_script", "open_create"})
    /\ [][\A w \in DOMAIN workers :
            (\E g \in {"create", "insert"} :
                workers[w].pc = "wait_" \o g /\ ~ Fired(EvtOf(w, g)))
              => workers'[w] = workers[w]]_vars

C4_Witness ==
    \E w \in DOMAIN workers :
        /\ workers[w].pc = "done" /\ workers[w].result = <<0>>
        /\ tasks[workers[w].task].status = "Completed"

\* ---- stage failures
ErrorTexts ==
    {"fail: Error during generation: <e>", "fail: Error during correction loop: <e>",
     "fail: Error: <e>", "fail: Schema generation failed: <e>"}

RegenFailText == "fail: Failed to generate corrected schema image: <e>"

\* Worker w catches an exception in this step.
Raises(w) == workers[w].raised = "none" /\ workers'[w].raised # "none"

Appended(T, t, k) == T[t].logs.tail[Len(T[t].logs.tail) - k]

\* The step ends the worker with an error status and a log entry that
\* carries the error text.
TerminalError(w) ==
    LET t == workers[w].task IN
    /\ workers'[w].pc = "done"
    /\ t \in DOMAIN tasks =>
         /\ tasks'[t].status \in ErrorStatuses
         /\ tasks'[t].logs.n = tasks[t].logs.n + 1
         /\ Appended(tasks', t, 0).text \in ErrorTexts

\* The step logs the failure and still parks the task at user review.
LoggedOnly(w) ==
    LET t == workers[w].task IN
    /\ workers'[w].pc = "done"
    /\ tasks'[t].status = "Awaiting user review"
    /\ tasks'[t].logs.n = tasks[t].logs.n + 2
    /\ Appended(tasks', t, 1).text = RegenFailText

DoneIsFinal ==
    \A w \in DOMAIN workers : workers[w].pc = "done" => workers'[w] = workers[w]

C7_SyntheticCodeFailsStage ==
    \A w \in DOMAIN workers :
        (workers[w].result # NoResult /\ workers[w].result[1] \in SyntheticCodes)
            => (workers[w].pc = "done" /\ workers[w].raised # "none")

\* ---- sandbox
Internal == {"write_failed", "script_missing", "launch_failed", "timeout"}

\* The call returned after communicate() had timed out.
TimedOut ==
    /\ rpc = "returned"
    /\ \/ ret[1].at = "timeout"
       \/ ret[1].at = "launch_failed" /\ child # "none"

\* C8: run_python_code never raises for a write failure, a launch failure or
\* a timeout; each is reported by its own negative code; a child that ended
\* by itself within the timeout has its exit code returned unchanged.
C8_FailuresReportedByOwnCodes ==
    /\ rpc # "raised"
    /\ rpc = "returned" =>
         /\ ret[1].at = "launch_failed" => child = "none"
         /\ TimedOut => ret[1].returncode = TimeoutCode
         /\ child = "exited" => ret[1].returncode = returncode[1]

\* C9: the exit code of a result is negative exactly when an internal
\* failure (write, launch, timeout) occurred; a code that comes from the
\* child is >= 0.
C9_NegativeIffInternalFailure ==
    rpc = "returned" => (ret[1].returncode < 0 <=> ret[1].at \in Internal)

\* C10: after a timeout the result carries the timeout code, the output
\* captured so far and no artifacts, and neither the child nor a process it
\* started is still running when the call returns.
C10_TimeoutKillsProcessTree ==
    TimedOut =>
        /\ ret[1].returncode = TimeoutCode
        /\ ret[1].stdout = out
        /\ ret[1].files = <<>>
        /\ child # "running"
        /\ ~ Alive(desc)

\* ---- the log as clients see it
\* Log b extends log a: it is at least as long, and the entries both keep
\* at the same position are the same.
Extends(a, b) ==
    /\ a.n <= b.n
    /\ \A i \in DOMAIN a.tail, j \in DOMAIN b.tail :
         (a.n - Len(a.tail) + i = b.n - Len(b.tail) + j) => a.tail[i] = b.tail[j]

Complete(logs) == \A i \in DOMAIN logs.tail : DOMAIN logs.tail[i] = {"role", "text"}

\* C15: what a Status read returned is a sequence of complete entries and a
\* prefix of the task's log ever after, hence of every later read; every
\* step of a worker or of a request thread only appends to a log.
C15_ReadsArePrefixes ==
    /\ [](status_resp # <<>> /\ status_resp[1].code = 200 =>
            /\ Complete(status_resp[1].logs)
            /\ Extends(status_resp[1].logs, tasks[status_resp[1].task].logs))
    /\ [][\A t \in DOMAIN tasks :
            t \in DOMAIN tasks' /\ Extends(tasks[t].logs, tasks'[t].logs)]_vars

\* A read that a worker and a request thread have appended to since.
C15_Witness ==
    /\ status_resp # <<>> /\ status_resp[1].code = 200
    /\ status_resp[1].logs.n >= 1
    /\ tasks[status_resp[1].task].logs.n > status_resp[1].logs.n + 1
    /\ \E r \in DOMAIN approvals : approvals[r].result = "409"

C17_UnknownIdIsNoOp ==
    [][(reg_call' # reg_call /\ reg_call'[1].task \notin DOMAIN tasks)
       => tasks' = tasks]_vars

\* A helper was called with an unknown id while a task is registered.
C17_Witness ==
    /\ reg_call # <<>> /\ reg_call[1].fn = "add_log"
    /\ reg_call[1].task \notin DOMAIN tasks
    /\ \E t \in DOMAIN tasks : tasks[t].logs.n > 1 /\ tasks[t].system_logs > 0

\* C18: whenever a task's awaiting_approval names a checkpoint that no
\* Approve has fired yet, an unset event is registered for the task (so an
\* Approve sent at that moment succeeds); a worker that has resumed has
\* removed awaiting_approval.
C18_AwaitingImpliesLiveGate ==
    \A t \in DOMAIN tasks :
        (/\ tasks[t].awaiting # "none"
         /\ \A e \in evtSet : ~ (\E w \in DOMAIN workers :
                                   workers[w].task = t /\ e = EvtOf(w, tasks[t].awaiting)))
        => (approval_events[t] # NoEvt /\ approval_events[t] \notin evtSet)

\* ---- ends of workers
\* The task has an error status and none of its workers is running.
Halted(t) ==
    /\ tasks[t].status \in ErrorStatuses
    /\ \A w \in DOMAIN workers : workers[w].task = t => ~ Active(w)

\* C19: once a task has an error status and its worker has ended, no request
\* changes the status or starts a worker for that task again.
C19_ErrorStatusIsTerminal ==
    [][\A t \in DOMAIN tasks :
         Halted(t) =>
           /\ tasks'[t].status = tasks[t].status
           /\ Len(workers') > Len(workers) => workers'[Len(workers')].task # t]_vars

\* Worker w ends in this step.
Exits(w) == Active(w) /\ workers'[w].pc = "done"

EqualPollsInTime(h) ==
    \E i \in 1 .. (Len(h) - 1) : h[i][1] = h[i + 1][1] /\ ~ TimeExhausted(h[i + 1][2])

\* The path was polled at least twice and no two consecutive polls agree.
PollsAlwaysDiffer(h) ==
    /\ Len(h) >= 2
    /\ \A i \in 1 .. (Len(h) - 1) : h[i][1] # h[i + 1][1]

Reportable(n) == n # ScriptName /\ isfile(fs, n) /\ Ext(n) \in AllowList

\* C11: a new file whose size is the same at two consecutive polls before
\* the maximum total wait has elapsed is in the stable-file list (and in the
\* result when it still exists and passes the filter); a file whose size
\* differs at every poll until the bound has elapsed is in neither.
C11_StableIffTwoEqualPolls ==
    \A n \in Names :
        /\ EqualPollsInTime(waiter.polls[n]) =>
             /\ n \in Range(waiter.stable_files)
             /\ (rpc = "returned" /\ Reportable(n)) => n \in Range(ret[1].files)
        /\ PollsAlwaysDiffer(waiter.polls[n]) =>
             /\ n \notin Range(waiter.stable_files)
             /\ rpc = "returned" => n \notin Range(ret[1].files)

\* A file that changed between its first polls, then kept its size, is
\* reported.
C11_Witness ==
    /\ rpc = "returned"
    /\ \E n \in LateNames :
         /\ Len(waiter.polls[n]) >= 3
         /\ waiter.polls[n][1][1] # waiter.polls[n][2][1]
         /\ n \in Range(ret[1].files)

\* C12: a candidate file that did not reach a stable size within the
\* maximum total wait (a warning was logged for it) is still in the
\* artifact list of the result when its extension is allow-listed.
C12_UnstableStillReturned ==
    rpc = "returned" =>
        \A n \in waiter.warned : Reportable(n) => n \in Range(ret[1].files)

\* C13: the allow-listed files reported for a run that ended by itself are
\* exactly those the script created or rewrote: the files absent from the
\* snapshot taken before the launch and the files of the snapshot that the
\* script changed.
C13_CandidatesAreNewOrChanged ==
    (rpc = "returned" /\ ret[1].at = "completed") =>
        \A n \in ArtifactNames :
            Ext(n) \in FallbackAllowList => (n \in Range(ret[1].files) <=> n \in made)

\* C14: every path of the returned artifact list is a regular file with an
\* allow-listed extension, is not the script, and occurs once; the list is
\* empty when the code is one of the synthetic negative codes.
C14_ArtifactListWellFormed ==
    rpc = "returned" =>
        LET files == ret[1].files IN
        /\ \A i \in DOMAIN files : Reportable(files[i])
        /\ \A i, j \in DOMAIN files : files[i] = files[j] => i = j
        /\ ret[1].at \in Internal => files = <<>>

\* ---- phase 1 of the schema tests
\* run_phase1 returned to worker w in this step and reported a failure.
Phase1Failed(w) ==
    /\ workers[w].pc = "run_phase1"
    /\ workers'[w].phase1_ok # NoResult
    /\ workers'[w].phase1_ok[1][1] = FALSE

\* C21: when run_phase1 reports a failure the status becomes the Phase 1
\* error, a failure entry and no "Phase 1 complete" entry is appended, and the
\* worker ends without running run_phase2.
C21_Phase1FailureHalts ==
    [][\A w \in DOMAIN workers :
         Phase1Failed(w) =>
           LET t == workers[w].task IN
           /\ tasks'[t].status = ErrorPhase1
           /\ tasks'[t].logs.n = tasks[t].logs.n + 1
           /\ Appended(tasks', t, 0).text = "fail: Phase 1 failed"
           /\ workers'[w].pc = "done"]_vars

\* ---- entry of the continuation flow and of the correction loop
\* A Submit-review request starts a worker in this step.
ReviewStartsWorker ==
    /\ Len(workers') > Len(workers)
    /\ workers'[Len(workers')].kind \in {"continue", "correction"}

\* C22: a Submit-review request starts a worker only for a registered task
\* whose status is "Awaiting user review".
C22_ReviewOnlyAtUserReview ==
    [][ReviewStartsWorker =>
         LET t == workers'[Len(workers')].task IN
         /\ t \in DOMAIN tasks
         /\ tasks[t].status = "Awaiting user review"]_vars

\* ---- the continuation flow
\* The positions of continue_pipeline, in program order.
ContinueSteps ==
    <<"start", "generate_create_script", "open_create", "wait_create", "execute_create",
      "generate_insert_script", "open_insert", "wait_insert", "execute_insert", "done">>

Position(pc) == CHOOSE i \in DOMAIN ContinueSteps : ContinueSteps[i] = pc

\* Worker w ends this step with the task completed after an INSERT run that
\* returned 0.
CompletesAfterInsert(w) ==
    /\ workers[w].pc = "execute_insert"
    /\ workers'[w].pc = "done"
    /\ workers'[w].result = <<0>>
    /\ workers'[w].raised = "none"

\* C23: a continuation worker moves one step at a time through
\* generate_create_script, await(create), execute_create,
\* generate_insert_script, await(insert), execute_insert, or ends with an error
\* status; "Completed" is set only by the step that saw the INSERT script
\* return 0, and every other way out of execute_insert sets an error status.
C23_ContinuationOrder ==
    [][/\ \A w \in DOMAIN workers :
            (workers[w].kind = "continue" /\ workers'[w].pc # workers[w].pc) =>
               LET t == workers[w].task IN
               \/ /\ workers'[w].pc # "done"
                  /\ Position(workers'[w].pc) = Position(workers[w].pc) + 1
                  /\ workers'[w].raised = "none"
               \/ /\ CompletesAfterInsert(w)
                  /\ tasks'[t].status = "Completed"
               \/ /\ workers'[w].pc = "done"
                  /\ ~ CompletesAfterInsert(w)
                  /\ workers'[w].raised # "none"
                  /\ t \in DOMAIN tasks => tasks'[t].status \in ErrorStatuses
       /\ \A t \in DOMAIN tasks :
            (tasks'[t].status = "Completed" /\ tasks[t].status # "Completed") =>
               \E w \in DOMAIN workers :
                  /\ workers[w].task = t /\ workers[w].kind = "continue"
                  /\ CompletesAfterInsert(w)]_vars

\* A continuation worker that ran the INSERT script with exit code 0 and
\* left the task completed.
C23_Witness ==
    \E w \in DOMAIN workers :
       /\ workers[w].kind = "continue" /\ workers[w].pc = "done"
       /\ workers[w].result = <<0>> /\ workers[w].raised = "none"
       /\ tasks[workers[w].task].status = "Completed"

\* ---- gates of blocked workers
\* The event worker w is blocked on in evt.wait().
BlockedOn(w) ==
    EvtOf(w, IF workers[w].pc = "wait_create" THEN "create" ELSE "insert")

\* C24: the event an unreleased worker is blocked on is the one registered
\* for its task, so a later Approve finds and sets it.
C24_BlockedGateStaysRegistered ==
    \A w \in DOMAIN workers :
        (workers[w].pc \in {"wait_create", "wait_insert"} /\ BlockedOn(w) \notin evtSet)
            => approval_events[workers[w].task] = BlockedOn(w)

\* ---- termination of the artifact wait
\* The wait starts the examination of a path in this step.
Examines(p) == rpc = "for" /\ rpc' = "poll" /\ waiter'.cur = p

StartRejected == StartCount' = StartCount + 1 /\ start_resp'[1].code # 200

\* A Start request is answered in this step with the id of the new task t.
StartAccepted(t) ==
    /\ StartCount' = StartCount + 1
    /\ start_resp'[1].code = 200 /\ start_resp'[1].task_id = t

\* C26: a rejected Start changes neither the registry nor the workers; a
\* task enters the registry only in the step of an accepted Start, which
\* starts exactly one worker, for that task, and leaves the task with status
\* "Starting..." and the user-context entry as its only log entry.
C26_StartFrame ==
    [][/\ StartRejected => (tasks' = tasks /\ workers' = workers)
       /\ \A t \in DOMAIN tasks' \ DOMAIN tasks :
            /\ StartAccepted(t)
            /\ workers' = Append(workers, NewWorker(t, "pipeline"))
            /\ tasks'[t].status = "Starting..."
            /\ tasks'[t].logs = [n |-> 1, tail |-> <<[role |-> "user", text |-> "User Context"]>>]
            /\ \A u \in DOMAIN tasks : tasks'[u] = tasks[u]]_vars

\* A Start was rejected after a task had been registered and its worker had
\* gone on, and Status shows that task as the worker left it.
C26_Witness ==
    /\ start_resp # <<>> /\ start_resp[1].code # 200 /\ start_resp[1].n > 1
    /\ \E t \in DOMAIN tasks : tasks[t].status # "Starting..."
    /\ status_resp # <<>> /\ status_resp[1].code = 200

\* ---- print capture
\* Some thread is bound to task t before or after this step.
BoundTo(t) ==
    \/ current_task = t \/ current_task' = t
    \/ \E w \in DOMAIN workers' :
          \/ workers'[w].current_task = t
          \/ w \in DOMAIN workers /\ workers[w].current_task = t

\* C27: a system log line is appended to a task only by a thread bound to
\* that task, and a thread that bound itself to a task, a worker or the
\* thread of a Start request, is unbound once its function has returned.
C27_BindingClearedOnReturn ==
    /\ [][\A t \in DOMAIN tasks :
            tasks'[t].system_logs > tasks[t].system_logs => BoundTo(t)]_vars
    /\ [](\A w \in DOMAIN workers :
            workers[w].pc = "done" => workers[w].current_task = NoTask)
    /\ [](current_task = NoTask)

\* ---- ordering of tables
\* No set of tables in which every table references a table of the set.
Acyclic(keys, graph) ==
    \A C \in SUBSET Range(keys) :
        C # {} => \E n \in C : graph[n] \cap C = {}

\* Every table once, each after the tables of the graph it references.
RespectsReferences(keys, graph, order) ==
    /\ Len(order) = Cardinality(Range(keys))
    /\ Range(order) = Range(keys)
    /\ \A i \in DOMAIN order :
         \A dep \in graph[order[i]] \cap Range(keys) :
            \E j \in 1 .. (i - 1) : order[j] = dep

\* C28: topological_sort returns True exactly for the acyclic graphs, then
\* with an order that holds every table once and after the tables it
\* references; the graph passed is the same after the call.
C28_TopologicalSort ==
    /\ [](topo.ret # <<>> =>
            /\ topo.ret[1] <=> Acyclic(topo.keys, topo.input_graph)
            /\ topo.ret[1] => RespectsReferences(topo.keys, topo.input_graph, topo.ret[2]))
    /\ [][topo.ret = <<>> /\ topo'.ret # <<>> => topo'.input_graph = topo.input_graph]_vars

\* Every table in the graph, a chain of references among them, one table
\* that also names a table outside the graph; sorted.
C28_Witness ==
    /\ topo.ret # <<>> /\ topo.ret[1]
    /\ Len(topo.keys) = MaxTables
    /\ \E a, b, c \in Range(topo.keys) :
         /\ a # b /\ b # c /\ a # c
         /\ b \in topo.input_graph[a] /\ c \in topo.input_graph[b]
         /\ topo.ret[2] = <<c, b, a>> /\ topo.keys = <<a, b, c>>

\* ---- retries of a query
\* C29: execute_with_retry executes at most `retries` times and ends in one
\* of three ways: it returns after the one attempt that committed, it
\* re-raises the first exception that is no database error, or it raises
\* the failure after `retries` database errors; every failed attempt was
\* rolled back.
C29_RetryOutcomes ==
    /\ retry.executes <= retry.retries
    /\ retry.commits <= 1
    /\ retry.pc = "done" =>
         /\ retry.result \in {"returned", "re-raised", "Failed to execute query"}
         /\ retry.rollbacks = retry.db_errors + retry.other_errors
         /\ retry.result = "returned" <=> retry.commits = 1
         /\ retry.result = "re-raised" <=> retry.other_errors = 1
         /\ retry.result = "Failed to execute query"
               <=> (retry.db_errors = retry.retries /\ retry.commits = 0 /\ retry.other_errors = 0)

\* ---- stage machine of app.py
DeclaredEdges ==
    {<<"idle", "start">>, <<"start", "generate_model">>,
     <<"generate_model", "generate_schema">>, <<"generate_schema", "run_phase1">>,
     <<"run_phase1", "run_phase2">>, <<"run_phase2", "correction">>,
     <<"correction", "UserReview">>, <<"UserReview", "run_phase1">>,
     <<"UserReview", "Code_Generation">>, <<"Code_Generation", "Table_Creation">>,
     <<"Table_Creation", "cleanup">>, <<"cleanup", "idle">>}

LastMsg == schema_chat_history.tail[Len(schema_chat_history.tail)]

====
